---- MODULE Spec2Model ----
(***************************************************************************)
(* Model of services/video_service.py (class VideoService) of the lore     *)
(* video bot: the composition request create_vertical_video with its       *)
(* duration probe and render step, the filter-graph builder                *)
(* _build_filter_complex with caption extraction and caption scheduling,   *)
(* and the best-effort optimizer optimize_for_youtube_shorts.              *)
(*                                                                         *)
(* Times are exact rationals <<n, d>> (d > 0) counted in tenths of a       *)
(* second, so 0.8 s is <<8, 1>> and 48.0 s / 4 is <<480, 4>>.  Python      *)
(* floats are modelled by their exact rational value.                      *)
(***************************************************************************)
EXTENDS Integers, Sequences, FiniteSets, TLC

VARIABLES
    imageCount,        \* len(image_paths) of the call under study
    script_text,       \* the script text, a sequence of tokens
    image_duration,    \* Option(rational): seconds per image, in tenths
    key_phrases,       \* result of _extract_key_phrases
    filter_complex,    \* Option(graph): result of _build_filter_complex
    fn_pc,             \* position of the function call under study
    pc,                \* position of the create_vertical_video request
    script_data_global,\* whether the free name script_data of
                       \* _create_video_with_ffmpeg resolves at module scope
    audio_duration,    \* Option(tenths): result of _get_audio_duration
    success,           \* result of _create_video_with_ffmpeg
    output_file,       \* the file at output_path
    result,            \* Option(path): result of create_vertical_video
    probes,            \* probe processes spawned
    renders,           \* render processes spawned
    log,               \* logger.error messages of the request
    process,           \* Option: returncode and stderr of the ffmpeg
                       \* process after communicate()
    opt_pc,            \* position of optimize_for_youtube_shorts
    opt_video_path,    \* its argument
    opt_rc,            \* Option(exit code) of the optimize process
    opt_result,        \* Option(path): its return value
    bot_pc,            \* position of LoreVideoBot.create_video
    audio_file,        \* Option(path): the narration passed as audio_path
    audio_on_disk,     \* the narration file exists in the scratch directory
    image_files,       \* downloaded image files in the scratch directory
    uploads,           \* the upload_video calls made so far
    success_sent,      \* the success message has been sent
    user_sessions,     \* LoreVideoBot.user_sessions: user id -> session
    handlers,          \* start_command / handle_message coroutines started
    pipelines,         \* create_video coroutines started
    name_pc,           \* position of the file naming under study
    name_in,           \* the two requests whose files are named
    name_out,          \* the two file names
    up_pc,             \* position of the upload() loop of a service
    up_svc,            \* the service that uploads
    up_chunks,         \* chunks the media file is sent in
    up_sent,           \* chunks the server has accepted
    up_last,           \* HTTP status of the last next_chunk() call
    up_retries,        \* "Server error ..., retrying" warnings logged
    up_result,         \* Option(id): what the pipeline gets back
    main_pc,           \* position of the __main__ block of main.py
    main_log,          \* error messages logged by main() and the loop
    exit_code          \* Option: exit status of the process

fnVars == <<imageCount, script_text, image_duration, key_phrases,
            filter_complex, fn_pc>>

reqVars == <<pc, script_data_global, audio_duration, success, output_file,
             result, probes, renders, log, process>>

optVars == <<opt_pc, opt_video_path, opt_rc, opt_result>>

botVars == <<bot_pc, audio_file, audio_on_disk, image_files, uploads,
             success_sent, user_sessions>>

sessVars == <<handlers, pipelines>>

nameVars == <<name_pc, name_in, name_out>>

upVars == <<up_pc, up_svc, up_chunks, up_sent, up_last, up_retries,
            up_result>>

mainVars == <<main_pc, main_log, exit_code>>

extVars == <<sessVars, nameVars, upVars, mainVars>>

vars == <<fnVars, reqVars, optVars, botVars, extVars>>

(***************************************************************************)
(* Bounds of the model.                                                    *)
(***************************************************************************)
MaxImages == 4
MaxSentences == 5
MaxRun == 2
MaxUpdates == 4
MaxTitleLen == 2
MaxChunks == 3
MaxRetries == 3
MaxRestarts == 3

(***************************************************************************)
(* Option values and rationals.                                            *)
(***************************************************************************)
None == <<>>
Some(x) == <<x>>
IsSome(o) == Len(o) = 1
Get(o) == o[1]

Rat(n, d) == <<n, d>>
RInt(n) == <<n, 1>>
RAdd(a, b) == <<a[1] * b[2] + b[1] * a[2], a[2] * b[2]>>
RSub(a, b) == <<a[1] * b[2] - b[1] * a[2], a[2] * b[2]>>
RMul(a, b) == <<a[1] * b[1], a[2] * b[2]>>
RDivInt(a, k) == <<a[1], a[2] * k>>
REq(a, b) == a[1] * b[2] = b[1] * a[2]
RLe(a, b) == a[1] * b[2] <= b[1] * a[2]
RLt(a, b) == a[1] * b[2] < b[1] * a[2]
\* int(x) of a rational: truncation towards zero
RFloor(a) ==
    IF a[1] >= 0 THEN a[1] \div a[2] ELSE 0 - ((0 - a[1]) \div a[2])

(***************************************************************************)
(* Script text.  A text is a sequence of tokens: a terminator character    *)
(* ('.', '!' or '?') or a maximal run of other characters, described by    *)
(* its raw length, the whitespace at its two ends (pad) and whether its    *)
(* lower-cased text contains one of the hook keywords.                     *)
(***************************************************************************)
Term == [kind |-> "term", raw |-> 0, pad |-> 0, hook |-> FALSE]
Text(raw, pad, hook) == [kind |-> "text", raw |-> raw, pad |-> pad, hook |-> hook]
EmptyPiece == Text(0, 0, FALSE)

(***************************************************************************)
(* _extract_key_phrases                                                    *)
(***************************************************************************)
MinSentenceLen == 10
MaxImpactLen == 50
MaxPhrases == 4

\* re.split(r'[.!?]+', script_text): the pieces between maximal runs of
\* terminators, the empty pieces at the two ends included.
RECURSIVE SplitFrom(_, _, _, _, _)
SplitFrom(toks, i, cur, inRun, acc) ==
    IF i > Len(toks) THEN Append(acc, cur)
    ELSE IF toks[i].kind = "term"
         THEN IF inRun THEN SplitFrom(toks, i + 1, cur, TRUE, acc)
              ELSE SplitFrom(toks, i + 1, EmptyPiece, TRUE, Append(acc, cur))
         ELSE SplitFrom(toks, i + 1, toks[i], FALSE, acc)

SplitSentences(toks) == SplitFrom(toks, 1, EmptyPiece, FALSE, <<>>)

\* len(sentence.strip())
StrippedLen(s) == s.raw - s.pad

\* mutant: sentences of exactly the minimum length are kept
QualifiesInclusive(s) ==
    /\ StrippedLen(s) >= MinSentenceLen
    /\ (s.hook \/ StrippedLen(s) < MaxImpactLen)

\* the two tests of the loop body: len > 10, then hook keyword or len < 50
Qualifies(s) ==
    /\ StrippedLen(s) > MinSentenceLen
    /\ (s.hook \/ StrippedLen(s) < MaxImpactLen)

\* sentence.strip().upper(), remembering the position of the sentence
UpperPhrase(s, i) ==
    [src |-> i, len |-> StrippedLen(s), hook |-> s.hook, upper |-> TRUE,
     escaped |-> FALSE]

RECURSIVE CollectPhrases(_, _, _)
CollectPhrases(sentences, i, acc) ==
    IF i > Len(sentences) THEN acc
    ELSE CollectPhrases(sentences, i + 1,
             IF Qualifies(sentences[i])
             THEN Append(acc, UpperPhrase(sentences[i], i))
             ELSE acc)

\* key_phrases[:4]
Truncate(kp) == SubSeq(kp, 1, IF Len(kp) < MaxPhrases THEN Len(kp) ELSE MaxPhrases)

ExtractKeyPhrases(toks) == Truncate(CollectPhrases(SplitSentences(toks), 1, <<>>))

(***************************************************************************)
(* _create_subtitle_filter                                                 *)
(***************************************************************************)
\* phrase.replace("'", "\\'").replace('"', '\\"')
CleanPhrase(p) == [p EXCEPT !.escaped = TRUE]

\* mutant: the window index is counted from 1
SubtitleStartOneBased(i, phrase_duration) == RMul(RInt(i + 1), phrase_duration)

\* start_time = i * phrase_duration (i counted from 0)
SubtitleStart(i, phrase_duration) == RMul(RInt(i), phrase_duration)

\* end_time = (i + 1) * phrase_duration
SubtitleEnd(i, phrase_duration) == RMul(RInt(i + 1), phrase_duration)

DrawText(phrase, i, phrase_duration) ==
    [name |-> "drawtext", text |-> CleanPhrase(phrase),
     start |-> SubtitleStart(i, phrase_duration),
     end |-> SubtitleEnd(i, phrase_duration)]

\* the comma-joined drawtext filters; "" (no filter at all) without phrases
CreateSubtitleFilter(phrases, total_duration) ==
    IF Len(phrases) = 0 THEN <<>>
    ELSE LET phrase_duration == RDivInt(total_duration, Len(phrases))
         IN  [j \in 1..Len(phrases) |->
                 DrawText(phrases[j], j - 1, phrase_duration)]

\* enable='between(t,start,end)': ffmpeg's between(x, min, max) is 1 iff
\* min <= x <= max
Enabled(f, t) == RLe(f.start, t) /\ RLe(t, f.end)

(***************************************************************************)
(* _build_filter_complex.  A graph is the sequence of the ';'-separated    *)
(* stages of the filter string; a stage has input labels, a ','-separated  *)
(* chain of filters and one output label.                                  *)
(***************************************************************************)
Fps == 30
TransitionDuration == RInt(8)
FadeDuration == RInt(5)

RawIn(i) == <<"in", i>>
V(i) == <<"v", i>>
Fade(i) == <<"fade", i>>
Base == <<"base", 0>>
Output == <<"output", 0>>

Stage(ins, filters, out) == [ins |-> ins, filters |-> filters, out |-> out]

\* mutant: the effects alternate between two kinds
EffectForAlternating(i) ==
    IF i % 2 = 0 THEN "ZoomIn" ELSE "PanRight"

\* the i % 3 rotation of the animation branches
EffectFor(i) ==
    IF i % 3 = 0 THEN "ZoomIn"
    ELSE IF i % 3 = 1 THEN "PanRight"
    ELSE "ZoomOut"

\* over-scale factor of each branch, in tenths (2, 1.2, 1.5)
ScaleFor(i) ==
    IF i % 3 = 0 THEN 20
    ELSE IF i % 3 = 1 THEN 12
    ELSE 15

\* d = int(self.fps * image_duration)
ZoomFrames(dur) == RFloor(Rat(Fps * dur[1], 10 * dur[2]))

\* "[i:v]scale=...,crop=...,zoompan=...,setpts=PTS-STARTPTS[vi]"
Animation(i, dur) ==
    Stage(<<RawIn(i)>>,
          <<[name |-> "scale", factor |-> ScaleFor(i)],
            [name |-> "crop"],
            [name |-> "zoompan", effect |-> EffectFor(i), d |-> ZoomFrames(dur)],
            [name |-> "setpts"]>>,
          V(i))

\* mutant: every earlier transition shortens the composite by its overlap
XfadeOffsetCumulative(i, dur) ==
    RMul(RInt(i), RSub(dur, TransitionDuration))

\* offset= of the xfade of loop index i (both branches of 'if i == 1')
XfadeOffset(i, dur) ==
    IF i = 1 THEN RSub(dur, TransitionDuration)
    ELSE RSub(RMul(RInt(i), dur), TransitionDuration)

\* transition= of the xfade of loop index i
TransitionType(i) ==
    IF i = 1 THEN "fadeblack"
    ELSE IF i % 2 = 0 THEN "wiperight" ELSE "fadeblack"

\* mutant: the previous image is cross-faded instead of the running composite
XfadeStageUnchained(current_stream, i, dur) ==
    Stage(<<V(i - 1), V(i)>>,
          <<[name |-> "xfade", transition |-> TransitionType(i),
             duration |-> TransitionDuration, offset |-> XfadeOffset(i, dur)]>>,
          Fade(i))

\* "[current_stream][vi]xfade=transition=..:duration=..:offset=..[fadei]"
XfadeStage(current_stream, i, dur) ==
    Stage(<<current_stream, V(i)>>,
          <<[name |-> "xfade", transition |-> TransitionType(i),
             duration |-> TransitionDuration, offset |-> XfadeOffset(i, dur)]>>,
          Fade(i))

\* for i in range(1, len(image_paths)): append the stage, advance current_stream
RECURSIVE XfadeLoop(_, _, _, _, _)
XfadeLoop(i, n, dur, current_stream, filters) ==
    IF i >= n THEN [filters |-> filters, current_stream |-> current_stream]
    ELSE XfadeLoop(i + 1, n, dur, Fade(i),
                   Append(filters, XfadeStage(current_stream, i, dur)))

\* mutant: the fade-out starts a transition length before the end
SingleFadeStageEarly(dur) ==
    Stage(<<V(0)>>,
          <<[name |-> "fade", t |-> "in", st |-> RInt(0), d |-> FadeDuration],
            [name |-> "fade", t |-> "out", st |-> RSub(dur, TransitionDuration),
             d |-> FadeDuration]>>,
          Base)

\* "[v0]fade=t=in:st=0:d=0.5,fade=t=out:st={image_duration-0.5}:d=0.5[base]"
SingleFadeStage(dur) ==
    Stage(<<V(0)>>,
          <<[name |-> "fade", t |-> "in", st |-> RInt(0), d |-> FadeDuration],
            [name |-> "fade", t |-> "out", st |-> RSub(dur, FadeDuration),
             d |-> FadeDuration]>>,
          Base)

\* "[current_stream]eq=contrast=1.1:brightness=0.05:saturation=1.2[base]"
ColorGradeStage(current_stream) ==
    Stage(<<current_stream>>, <<[name |-> "eq"]>>, Base)

\* "[base]{subtitle_filter}[output]"
SubtitleStage(subtitle_filter) == Stage(<<Base>>, subtitle_filter, Output)

\* len(image_paths) * image_duration
TotalDuration(n, dur) == RMul(RInt(n), dur)

BuildFilterComplex(n, dur, script) ==
    LET animations == [k \in 1..n |-> Animation(k - 1, dur)]
        loop == XfadeLoop(1, n, dur, V(0), animations)
        \* the list 'filters' after the branch, and the stages of base_video
        filters == IF n = 1 THEN animations ELSE loop.filters
        base_video == IF n = 1
                      THEN <<animations[1], SingleFadeStage(dur)>>
                      ELSE <<ColorGradeStage(loop.current_stream)>>
        subtitle_text == ExtractKeyPhrases(script)
        subtitle_filter == CreateSubtitleFilter(subtitle_text, TotalDuration(n, dur))
    IN  filters \o base_video \o <<SubtitleStage(subtitle_filter)>>

(***************************************************************************)
(* Inputs.                                                                 *)
(***************************************************************************)
\* sentence bodies around the two length thresholds, with and without a
\* hook keyword and with and without surrounding whitespace
SentenceKinds ==
    {Text(10, 0, TRUE), Text(11, 0, FALSE), Text(12, 2, FALSE),
     Text(50, 0, FALSE), Text(50, 0, TRUE), Text(51, 2, FALSE)}

\* the sentence bodies used where only the number of captions matters
PlainKinds == {Text(11, 0, FALSE), Text(50, 0, FALSE)}

SeqsUpTo(S, n) == UNION {[1..k -> S] : k \in 0..n}

RECURSIVE Terms(_)
Terms(run) == IF run = 0 THEN <<>> ELSE <<Term>> \o Terms(run - 1)

\* each sentence body followed by a run of terminators
RECURSIVE ScriptOf(_, _)
ScriptOf(bodies, run) ==
    IF Len(bodies) = 0 THEN <<>>
    ELSE <<bodies[1]>> \o Terms(run) \o ScriptOf(Tail(bodies), run)

Scripts(kinds) ==
    {ScriptOf(b, run) : b \in SeqsUpTo(kinds, MaxSentences), run \in 1..MaxRun}

\* narration durations in tenths of a second
NarrationDurations == {20, 24, 100, 480}

\* mutant: floor division
ImageDurationFloor(duration, n) == Rat(duration \div n, 1)

\* image_duration = audio_duration / len(image_paths)
ImageDuration(duration, n) == Rat(duration, n)

(***************************************************************************)
(* Specification of _extract_key_phrases applied to a script.              *)
(***************************************************************************)
\* no composition request and no optimizer call
RequestOff ==
    /\ pc = "off"
    /\ script_data_global = "unbound"
    /\ audio_duration = None
    /\ success = FALSE
    /\ output_file = "missing"
    /\ result = None
    /\ probes = 0
    /\ renders = 0
    /\ log = <<>>
    /\ process = None

OptimizeOff ==
    /\ opt_pc = "off"
    /\ opt_video_path = <<>>
    /\ opt_rc = None
    /\ opt_result = None

\* no update of a user is being handled
SessionsOff ==
    /\ handlers = <<>>
    /\ pipelines = <<>>

\* no file is being named
NamesOff ==
    /\ name_pc = "off"
    /\ name_in = <<>>
    /\ name_out = <<>>

\* no upload is running
UploadOff ==
    /\ up_pc = "off"
    /\ up_svc = "none"
    /\ up_chunks = 0
    /\ up_sent = 0
    /\ up_last = 0
    /\ up_retries = 0
    /\ up_result = None

\* the process entry point is not under study
MainOff ==
    /\ main_pc = "off"
    /\ main_log = <<>>
    /\ exit_code = None

ExtOff ==
    /\ SessionsOff
    /\ NamesOff
    /\ UploadOff
    /\ MainOff

\* no create_video pipeline of the bot
BotOff ==
    /\ bot_pc = "off"
    /\ audio_file = None
    /\ audio_on_disk = FALSE
    /\ image_files = 0
    /\ uploads = <<>>
    /\ success_sent = FALSE
    /\ user_sessions = <<>>

InitPhrases ==
    /\ RequestOff
    /\ OptimizeOff
    /\ BotOff
    /\ ExtOff
    /\ script_text \in Scripts(SentenceKinds)
    /\ imageCount = 0
    /\ image_duration = None
    /\ key_phrases = <<>>
    /\ filter_complex = None
    /\ fn_pc = "call"

CallExtractKeyPhrases ==
    /\ fn_pc = "call"
    /\ key_phrases' = ExtractKeyPhrases(script_text)
    /\ fn_pc' = "return"
    /\ UNCHANGED <<imageCount, script_text, image_duration, filter_complex,
                   reqVars, optVars, extVars, botVars>>

NextPhrases == CallExtractKeyPhrases

SpecPhrases == InitPhrases /\ [][NextPhrases]_vars

(***************************************************************************)
(* Specification of _build_filter_complex applied to an image list, a      *)
(* per-image duration and a script.                                        *)
(***************************************************************************)
InitGraph ==
    /\ RequestOff
    /\ OptimizeOff
    /\ BotOff
    /\ ExtOff
    /\ imageCount \in 1..MaxImages
    /\ script_text \in Scripts(PlainKinds)
    /\ \E d \in NarrationDurations :
           image_duration = Some(ImageDuration(d, imageCount))
    /\ key_phrases = <<>>
    /\ filter_complex = None
    /\ fn_pc = "call"

CallBuildFilterComplex ==
    /\ fn_pc = "call"
    /\ filter_complex' =
           Some(BuildFilterComplex(imageCount, Get(image_duration), script_text))
    /\ key_phrases' = ExtractKeyPhrases(script_text)
    /\ fn_pc' = "return"
    /\ UNCHANGED <<imageCount, script_text, image_duration, reqVars, optVars, extVars, botVars>>

NextGraph == CallBuildFilterComplex

SpecGraph == InitGraph /\ [][NextGraph]_vars

(***************************************************************************)
(* The composition request create_vertical_video and the optimizer         *)
(* optimize_for_youtube_shorts as processes of one VideoService.           *)
(***************************************************************************)
\* what ffprobe prints on stdout: a duration float() parses (zero and, for
\* media with broken timestamps, a negative value included), or text it
\* rejects (empty output, "N/A")
ProbeOutputs == {Some(d) : d \in NarrationDurations \cup {0, -10}} \cup {None}

\* scripts of the requests
RequestScripts == {ScriptOf(b, 1) : b \in SeqsUpTo(PlainKinds, 2)}

\* the file ffmpeg leaves at output_path when it exits with rc
RenderOutcomes(rc) ==
    IF rc = 0 THEN {"missing", "empty", "nonempty"} ELSE {"missing", "partial"}

\* a path is the sequence of the parts of its file name
OutputPath == <<"got_video.mp4">>
AudioPath == <<"narration.mp3">>
VideoPaths == {OutputPath, <<"other.mp4">>}

\* temp_dir / f"optimized_{Path(video_path).name}"
OptimizedPath(video_path) == <<"optimized_">> \o video_path

\* A request starts with its arguments fixed.  The name script_data that
\* _create_video_with_ffmpeg reads is not bound by any module of the
\* repository ("unbound", the NameError path); "bound" is the environment in
\* which the lookup succeeds and the rest of the method runs.
Init ==
    /\ imageCount \in 0..MaxImages
    /\ script_text \in RequestScripts
    /\ script_data_global \in {"unbound", "bound"}
    /\ image_duration = None
    /\ key_phrases = <<>>
    /\ filter_complex = None
    /\ fn_pc = "off"
    /\ pc = "start"
    /\ audio_duration = None
    /\ success = FALSE
    /\ output_file = "missing"
    /\ result = None
    /\ probes = 0
    /\ renders = 0
    /\ log = <<>>
    /\ process = None
    /\ opt_pc = "idle"
    /\ opt_video_path = <<>>
    /\ opt_rc = None
    /\ opt_result = None
    /\ bot_pc = "off"
    /\ audio_file = Some(AudioPath)
    /\ audio_on_disk = TRUE
    /\ image_files = imageCount
    /\ uploads = <<>>
    /\ success_sent = FALSE
    /\ user_sessions = <<>>
    /\ ExtOff

\* return None of create_vertical_video after logger.error(msg)
ReturnNone(msg) ==
    /\ log' = Append(log, msg)
    /\ result' = None
    /\ pc' = "done"

\* mutant: two images are enough to go on to the probe
CheckImagesTwo ==
    /\ pc = "start"
    /\ IF imageCount < 2
       THEN ReturnNone("Insufficient images for video creation")
       ELSE pc' = "probe_spawn" /\ UNCHANGED <<log, result>>
    /\ UNCHANGED <<fnVars, optVars, extVars, botVars, script_data_global, process, audio_duration,
                   success, output_file, probes, renders>>

\* if len(image_paths) < 3: return None
CheckImages ==
    /\ pc = "start"
    /\ IF imageCount < 3
       THEN ReturnNone("Insufficient images for video creation")
       ELSE pc' = "probe_spawn" /\ UNCHANGED <<log, result>>
    /\ UNCHANGED <<fnVars, optVars, extVars, botVars, script_data_global, process, audio_duration,
                   success, output_file, probes, renders>>

\* _get_audio_duration: await create_subprocess_exec('ffprobe', ...); an
\* exception of the spawn is caught and the probe returns None; with
\* audio_path None the argument list is rejected and the spawn raises
ProbeSpawn ==
    /\ pc = "probe_spawn"
    /\ \E spawned \in (IF IsSome(audio_file) THEN BOOLEAN ELSE {FALSE}) :
          IF spawned
          THEN probes' = probes + 1 /\ pc' = "probe_wait" /\ UNCHANGED log
          ELSE /\ pc' = "probe_check"
               /\ log' = Append(log, "Error getting audio duration")
               /\ UNCHANGED probes
    /\ audio_duration' = None
    /\ UNCHANGED <<fnVars, optVars, extVars, botVars, script_data_global, process, success, output_file,
                   result, renders>>

\* _get_audio_duration: await communicate(); float(stdout) on exit code 0,
\* None on a non-zero exit code or when float() raises
ProbeCommunicate ==
    /\ pc = "probe_wait"
    /\ \E rc \in {0, 1}, out \in ProbeOutputs :
          /\ audio_duration' = IF rc = 0 THEN out ELSE None
          /\ log' = IF rc # 0 THEN Append(log, "ffprobe error")
                    ELSE IF out = None
                         THEN Append(log, "Error getting audio duration")
                         ELSE log
    /\ pc' = "probe_check"
    /\ UNCHANGED <<fnVars, optVars, extVars, botVars, script_data_global, process, success, output_file,
                   result, probes, renders>>

\* if not audio_duration: return None
\* image_duration = audio_duration / len(image_paths)
PlanTiming ==
    /\ pc = "probe_check"
    /\ IF audio_duration = None \/ audio_duration = Some(0)
       THEN /\ ReturnNone("Could not determine audio duration")
            /\ UNCHANGED image_duration
       ELSE /\ image_duration' =
                   Some(ImageDuration(Get(audio_duration), imageCount))
            /\ pc' = "render_call"
            /\ UNCHANGED <<log, result>>
    /\ UNCHANGED <<imageCount, script_text, key_phrases, filter_complex, fn_pc,
                   optVars, extVars, botVars, script_data_global, process, audio_duration,
                   success,
                   output_file, probes, renders>>

\* mutant: the failure of the graph construction is swallowed and the
\* render goes on
BuildGraphContinues ==
    /\ pc = "render_call"
    /\ IF script_data_global = "unbound"
       THEN /\ log' = Append(log, "Error running FFmpeg: NameError")
            /\ UNCHANGED <<filter_complex, key_phrases>>
       ELSE /\ filter_complex' =
                   Some(BuildFilterComplex(imageCount, Get(image_duration),
                                           script_text))
            /\ key_phrases' = ExtractKeyPhrases(script_text)
            /\ UNCHANGED log
    /\ pc' = "render_spawn"
    /\ UNCHANGED <<imageCount, script_text, image_duration, fn_pc, optVars, extVars, botVars,
                   script_data_global, process, audio_duration, output_file, result,
                   probes, renders, success>>

\* _create_video_with_ffmpeg, first statement: the arguments of
\* self._build_filter_complex(image_paths, image_duration, script_data['script']);
\* script_data is neither a parameter nor a local of the method, so the name
\* is looked up at module scope and raises NameError when nothing binds it;
\* the except clause of the method then returns False
BuildGraph ==
    /\ pc = "render_call"
    /\ IF script_data_global = "unbound"
       THEN /\ success' = FALSE
            /\ log' = Append(log, "Error running FFmpeg: NameError")
            /\ pc' = "validate"
            /\ UNCHANGED <<filter_complex, key_phrases>>
       ELSE /\ filter_complex' =
                   Some(BuildFilterComplex(imageCount, Get(image_duration),
                                           script_text))
            /\ key_phrases' = ExtractKeyPhrases(script_text)
            /\ pc' = "render_spawn"
            /\ UNCHANGED <<success, log>>
    /\ UNCHANGED <<imageCount, script_text, image_duration, fn_pc, optVars, extVars, botVars,
                   script_data_global, process, audio_duration, output_file, result,
                   probes, renders>>

\* mutant: the exception of the spawn is not caught and leaves
\* create_vertical_video
RenderSpawnRaises ==
    /\ pc = "render_spawn"
    /\ \E spawned \in BOOLEAN :
          IF spawned
          THEN renders' = renders + 1 /\ pc' = "render_wait"
               /\ UNCHANGED <<success, log>>
          ELSE /\ success' = FALSE
               /\ log' = Append(log, "Error running FFmpeg: OSError")
               /\ pc' = "raised"
               /\ UNCHANGED renders
    /\ UNCHANGED <<fnVars, optVars, extVars, botVars, script_data_global, process, audio_duration,
                   output_file, result, probes>>

\* await create_subprocess_exec('ffmpeg', ...); an exception of the spawn
\* is caught and the method returns False
RenderSpawn ==
    /\ pc = "render_spawn"
    /\ \E spawned \in BOOLEAN :
          IF spawned
          THEN renders' = renders + 1 /\ pc' = "render_wait"
               /\ UNCHANGED <<success, log>>
          ELSE /\ success' = FALSE
               /\ log' = Append(log, "Error running FFmpeg: OSError")
               /\ pc' = "validate"
               /\ UNCHANGED renders
    /\ UNCHANGED <<fnVars, optVars, extVars, botVars, script_data_global, process, audio_duration,
                   output_file, result, probes>>

\* what ffmpeg -loglevel warning writes to stderr before exiting with rc
StderrTexts(rc) ==
    IF rc = 0 THEN {"", "deprecated pixel format"}
    ELSE {"Invalid filtergraph", "No such file or directory"}

\* await process.communicate(); return process.returncode == 0
RenderExit ==
    /\ pc = "render_wait"
    /\ \E rc \in {0, 1} :
          /\ output_file' \in RenderOutcomes(rc)
          /\ \E e \in StderrTexts(rc) :
                process' = Some([returncode |-> rc, stderr |-> e])
          /\ success' = (rc = 0)
          /\ log' = IF rc = 0 THEN log ELSE Append(log, "FFmpeg failed")
    /\ pc' = "validate"
    /\ UNCHANGED <<fnVars, optVars, extVars, botVars, script_data_global, audio_duration,
                   result, probes, renders>>

\* output_path.exists()
Exists(file) == file # "missing"

\* if success and output_path.exists(): return str(output_path)
\* else: return None
ValidateOutput ==
    /\ pc = "validate"
    /\ IF success /\ Exists(output_file)
       THEN result' = Some(OutputPath) /\ pc' = "done" /\ UNCHANGED log
       ELSE ReturnNone("Video creation failed")
    /\ UNCHANGED <<fnVars, optVars, extVars, botVars, script_data_global, process, audio_duration,
                   success, output_file, probes, renders>>

\* optimize_for_youtube_shorts(video_path) is called
OptimizeCall ==
    /\ opt_pc = "idle"
    /\ opt_video_path' \in VideoPaths
    /\ opt_pc' = "spawn"
    /\ UNCHANGED <<fnVars, reqVars, botVars, extVars, opt_rc, opt_result>>

\* await create_subprocess_exec('ffmpeg', ...); except: return video_path
OptimizeSpawn ==
    /\ opt_pc = "spawn"
    /\ \E spawned \in BOOLEAN :
          IF spawned
          THEN opt_pc' = "wait" /\ UNCHANGED opt_result
          ELSE opt_pc' = "done" /\ opt_result' = Some(opt_video_path)
    /\ UNCHANGED <<fnVars, reqVars, botVars, extVars, opt_video_path, opt_rc>>

\* mutant: the optimized path is returned whatever the exit code
OptimizeReturnAlways(rc, video_path) == OptimizedPath(video_path)

\* the value returned after communicate(): the optimized path on exit code
\* 0, the original video_path otherwise
OptimizeReturn(rc, video_path) ==
    IF rc = 0 THEN OptimizedPath(video_path) ELSE video_path

\* await process.communicate(), which may raise; then the returncode test
OptimizeExit ==
    /\ opt_pc = "wait"
    /\ \E raised \in BOOLEAN, rc \in {0, 1} :
          IF raised
          THEN opt_result' = Some(opt_video_path) /\ UNCHANGED opt_rc
          ELSE /\ opt_rc' = Some(rc)
               /\ opt_result' = Some(OptimizeReturn(rc, opt_video_path))
    /\ opt_pc' = "done"
    /\ UNCHANGED <<fnVars, reqVars, botVars, extVars, opt_video_path>>

Next ==
    \/ CheckImages
    \/ ProbeSpawn
    \/ ProbeCommunicate
    \/ PlanTiming
    \/ BuildGraph
    \/ RenderSpawn
    \/ RenderExit
    \/ ValidateOutput
    \/ OptimizeCall
    \/ OptimizeSpawn
    \/ OptimizeExit

Spec == Init /\ [][Next]_vars

(***************************************************************************)
(* LoreVideoBot.create_video: script, images, narration, video, the two    *)
(* uploads, the success message and the cleanup, for one user whose        *)
(* session handle_message has put in state 'processing'.                   *)
(***************************************************************************)
User == 1

\* self.user_sessions[user_id] = {'state': ..., 'topic': ...}
SetSession(sessions, u, state, topic) ==
    [v \in (DOMAIN sessions) \cup {u} |->
        IF v = u THEN [state |-> state, topic |-> topic] ELSE sessions[v]]

\* if user_id in self.user_sessions: del self.user_sessions[user_id]
DelSession(sessions, u) ==
    [v \in (DOMAIN sessions) \ {u} |-> sessions[v]]

\* handle_message has set session['state'] = 'processing' and calls
\* create_video; create_vertical_video has not been called yet
InitBot ==
    /\ imageCount = 0
    /\ script_text = <<>>
    /\ script_data_global \in {"unbound", "bound"}
    /\ image_duration = None
    /\ key_phrases = <<>>
    /\ filter_complex = None
    /\ fn_pc = "off"
    /\ pc = "off"
    /\ audio_duration = None
    /\ success = FALSE
    /\ output_file = "missing"
    /\ result = None
    /\ probes = 0
    /\ renders = 0
    /\ log = <<>>
    /\ process = None
    /\ OptimizeOff
    /\ bot_pc = "script"
    /\ audio_file = None
    /\ audio_on_disk = FALSE
    /\ image_files = 0
    /\ uploads = <<>>
    /\ success_sent = FALSE
    /\ user_sessions = SetSession(<<>>, User, "processing", Some("topic"))
    /\ ExtOff

\* raise inside the try block of create_video: control goes to the handler
Raise ==
    bot_pc' = "except"

\* script_data = await generate_got_script(topic);
\* if not script_data: raise Exception("Failed to generate script")
GenerateScript ==
    /\ bot_pc = "script"
    /\ \/ /\ Raise
          /\ UNCHANGED script_text
       \/ /\ \E s \in RequestScripts : script_text' = s
          /\ bot_pc' = "images"
    /\ UNCHANGED <<imageCount, image_duration, key_phrases, filter_complex,
                   fn_pc, reqVars, optVars, extVars, audio_file, audio_on_disk,
                   image_files, uploads, success_sent, user_sessions>>

\* images = await get_got_images(keywords): each returned path is a file
\* downloaded into the scratch directory;
\* if len(images) < 3: raise Exception("Insufficient relevant images found")
FindImages ==
    /\ bot_pc = "images"
    /\ \E k \in 0..MaxImages :
          /\ imageCount' = k
          /\ image_files' = k
          /\ IF k < 3 THEN Raise ELSE bot_pc' = "tts"
    /\ UNCHANGED <<script_text, image_duration, key_phrases, filter_complex,
                   fn_pc, reqVars, optVars, extVars, audio_file, audio_on_disk,
                   uploads, success_sent, user_sessions>>

\* audio_file = await text_to_speech(script): the path of the written file,
\* or None on failure; create_video does not look at the value
TextToSpeech ==
    /\ bot_pc = "tts"
    /\ \E written \in BOOLEAN :
          /\ audio_file' = IF written THEN Some(AudioPath) ELSE None
          /\ audio_on_disk' = written
    /\ bot_pc' = "video_call"
    /\ UNCHANGED <<fnVars, reqVars, optVars, extVars, image_files, uploads,
                   success_sent, user_sessions>>

\* video_file = await create_vertical_video(script_data, images, audio_file)
CallCreateVideo ==
    /\ bot_pc = "video_call"
    /\ pc = "off"
    /\ pc' = "start"
    /\ bot_pc' = "video_wait"
    /\ UNCHANGED <<fnVars, optVars, extVars, script_data_global, process, audio_duration,
                   success, output_file, result, probes, renders, log,
                   audio_file, audio_on_disk, image_files, uploads,
                   success_sent, user_sessions>>

\* create_vertical_video has returned; video_file (result) is not looked at
VideoReturned ==
    /\ bot_pc = "video_wait"
    /\ pc = "done"
    /\ bot_pc' = "youtube"
    /\ UNCHANGED <<fnVars, reqVars, optVars, extVars, audio_file, audio_on_disk,
                   image_files, uploads, success_sent, user_sessions>>

\* upload_video(video_file, ...) of a service: every exception is caught
\* inside and None is returned, so the call never raises; with video_file
\* None or the file missing it cannot return a link
UploadVideo(svc, next) ==
    /\ \E ok \in (IF IsSome(result) /\ output_file # "missing"
                  THEN BOOLEAN ELSE {FALSE}) :
          uploads' = Append(uploads, [svc |-> svc, arg |-> result, ok |-> ok])
    /\ bot_pc' = next
    /\ UNCHANGED <<fnVars, reqVars, optVars, extVars, audio_file, audio_on_disk,
                   image_files, success_sent, user_sessions>>

\* youtube_url = await self.youtube_service.upload_video(video_file, ...)
UploadYouTube ==
    /\ bot_pc = "youtube"
    /\ UploadVideo("youtube", "drive")

\* drive_url = await self.drive_service.upload_video(video_file, ...)
UploadDrive ==
    /\ bot_pc = "drive"
    /\ UploadVideo("drive", "reply")

\* await update.message.reply_text(success_message)
SendSuccess ==
    /\ bot_pc = "reply"
    /\ success_sent' = TRUE
    /\ bot_pc' = "cleanup"
    /\ UNCHANGED <<fnVars, reqVars, optVars, extVars, audio_file, audio_on_disk,
                   image_files, uploads, user_sessions>>

\* an awaited update.message.reply_text(...) inside the try block raises
ReplyRaises ==
    /\ bot_pc \in {"script", "images", "tts", "video_call", "youtube",
                   "drive", "reply"}
    /\ Raise
    /\ UNCHANGED <<fnVars, reqVars, optVars, extVars, audio_file, audio_on_disk,
                   image_files, uploads, success_sent, user_sessions>>

\* _cleanup_files(audio_file, video_file): unlink each argument that is a
\* path of an existing file; the image files are not among the arguments
CleanupFiles ==
    /\ bot_pc = "cleanup"
    /\ audio_on_disk' = IF IsSome(audio_file) THEN FALSE ELSE audio_on_disk
    /\ output_file' = IF IsSome(result) THEN "missing" ELSE output_file
    /\ bot_pc' = "finally"
    /\ UNCHANGED <<fnVars, optVars, extVars, pc, script_data_global, process, audio_duration,
                   success, result, probes, renders, log, audio_file,
                   image_files, uploads, success_sent, user_sessions>>

\* except Exception as e: the error message is sent, nothing is deleted
HandleException ==
    /\ bot_pc = "except"
    /\ bot_pc' = "finally"
    /\ UNCHANGED <<fnVars, reqVars, optVars, extVars, audio_file, audio_on_disk,
                   image_files, uploads, success_sent, user_sessions>>

\* finally: if user_id in self.user_sessions: del self.user_sessions[user_id]
ResetSession ==
    /\ bot_pc = "finally"
    /\ user_sessions' = DelSession(user_sessions, User)
    /\ bot_pc' = "done"
    /\ UNCHANGED <<fnVars, reqVars, optVars, extVars, audio_file, audio_on_disk,
                   image_files, uploads, success_sent>>

NextBot ==
    \/ GenerateScript
    \/ FindImages
    \/ TextToSpeech
    \/ CallCreateVideo
    \/ CheckImages
    \/ ProbeSpawn
    \/ ProbeCommunicate
    \/ PlanTiming
    \/ BuildGraph
    \/ RenderSpawn
    \/ RenderExit
    \/ ValidateOutput
    \/ VideoReturned
    \/ UploadYouTube
    \/ UploadDrive
    \/ SendSuccess
    \/ ReplyRaises
    \/ CleanupFiles
    \/ HandleException
    \/ ResetSession

SpecBot == InitBot /\ [][NextBot]_vars

(***************************************************************************)
(* Sessions: start_command and handle_message for updates that the webhook *)
(* hands to process_update one request at a time, each request running as  *)
(* its own coroutine.  A coroutine runs without interruption up to its     *)
(* next await.  create_video is reduced to its try / except / finally      *)
(* skeleton.                                                               *)
(***************************************************************************)
Users == {1, 2}
Topics == {"Azor Ahai", "The Night King"}

\* everything the session handlers leave alone
sessFrame == <<fnVars, reqVars, optVars, bot_pc, audio_file, audio_on_disk,
               image_files, uploads, success_sent, nameVars, upVars,
               mainVars>>

InitSessions ==
    /\ imageCount = 0
    /\ script_text = <<>>
    /\ image_duration = None
    /\ key_phrases = <<>>
    /\ filter_complex = None
    /\ fn_pc = "off"
    /\ RequestOff
    /\ OptimizeOff
    /\ BotOff
    /\ SessionsOff
    /\ NamesOff
    /\ UploadOff
    /\ MainOff

\* session.get(user_id): the state handle_message sees on entry
SeenState(u) ==
    IF u \in DOMAIN user_sessions THEN user_sessions[u].state ELSE "none"

\* /start arrives: start_command builds the welcome text and awaits
\* reply_text; the session is assigned only after the await
DeliverStart ==
    /\ Len(handlers) < MaxUpdates
    /\ \E u \in Users :
          handlers' = Append(handlers,
              [kind |-> "start", user |-> u, seen |-> SeenState(u),
               topic |-> None, pc |-> "reply"])
    /\ UNCHANGED <<sessFrame, user_sessions, pipelines>>

\* the welcome reply returns and user_sessions[user_id] is assigned, or the
\* reply raises and start_command ends without a session
StartReplied ==
    /\ \E h \in 1..Len(handlers) :
          /\ handlers[h].kind = "start"
          /\ handlers[h].pc = "reply"
          /\ handlers' = [handlers EXCEPT ![h].pc = "done"]
          /\ \/ user_sessions' = SetSession(user_sessions, handlers[h].user,
                                            "waiting_for_topic", None)
             \/ UNCHANGED user_sessions
    /\ UNCHANGED <<sessFrame, pipelines>>

\* mutant: a topic is taken whatever the state of the session
TakesTopicAlways(state) == state # "none"

\* if session['state'] == 'waiting_for_topic'
TakesTopic(state) == state = "waiting_for_topic"

\* a text message arrives: handle_message up to its first await.  Without
\* a session, or with a session that is not waiting, only a reply is sent;
\* with a waiting session the topic is stored and the state becomes
\* 'processing' before the reply is awaited
DeliverMessage ==
    /\ Len(handlers) < MaxUpdates
    /\ \E u \in Users, t \in Topics :
          /\ handlers' = Append(handlers,
                [kind |-> "message", user |-> u, seen |-> SeenState(u),
                 topic |-> Some(t), pc |-> "reply"])
          /\ user_sessions' =
                IF TakesTopic(SeenState(u))
                THEN SetSession(user_sessions, u, "processing", Some(t))
                ELSE user_sessions
    /\ UNCHANGED <<sessFrame, pipelines>>

\* the reply of handle_message returns: in the topic branch create_video is
\* called next (await self.create_video(...)), in the other branches the
\* handler returns; a reply that raises ends the handler
MessageReplied ==
    /\ \E h \in 1..Len(handlers) :
          /\ handlers[h].kind = "message"
          /\ handlers[h].pc = "reply"
          /\ \/ /\ TakesTopic(handlers[h].seen)
                /\ handlers' = [handlers EXCEPT ![h].pc = "create_video"]
                /\ pipelines' = Append(pipelines,
                      [user |-> handlers[h].user, topic |-> handlers[h].topic,
                       by |-> h, started |-> Len(handlers), pc |-> "try",
                       outcome |-> "running"])
             \/ /\ handlers' = [handlers EXCEPT ![h].pc = "done"]
                /\ UNCHANGED pipelines
    /\ UNCHANGED <<sessFrame, user_sessions>>

\* create_video awaits its steps inside try: it either gets through the
\* cleanup or an exception takes it to the handler
PipelineTry ==
    /\ \E i \in 1..Len(pipelines) :
          /\ pipelines[i].pc = "try"
          /\ \/ pipelines' = [pipelines EXCEPT ![i].pc = "finally",
                                                 ![i].outcome = "success"]
             \/ pipelines' = [pipelines EXCEPT ![i].pc = "except",
                                                 ![i].outcome = "error"]
    /\ UNCHANGED <<sessFrame, user_sessions, handlers>>

\* except Exception: the error reply is awaited; finally runs in any case
PipelineExcept ==
    /\ \E i \in 1..Len(pipelines) :
          /\ pipelines[i].pc = "except"
          /\ pipelines' = [pipelines EXCEPT ![i].pc = "finally"]
    /\ UNCHANGED <<sessFrame, user_sessions, handlers>>

\* finally: if user_id in self.user_sessions: del self.user_sessions[user_id];
\* create_video and with it handle_message return
PipelineFinally ==
    /\ \E i \in 1..Len(pipelines) :
          /\ pipelines[i].pc = "finally"
          /\ pipelines' = [pipelines EXCEPT ![i].pc = "done"]
          /\ user_sessions' = DelSession(user_sessions, pipelines[i].user)
          /\ handlers' = [handlers EXCEPT ![pipelines[i].by].pc = "done"]
    /\ UNCHANGED sessFrame

NextSessions ==
    \/ DeliverStart
    \/ StartReplied
    \/ DeliverMessage
    \/ MessageReplied
    \/ PipelineTry
    \/ PipelineExcept
    \/ PipelineFinally

SpecSessions == InitSessions /\ [][NextSessions]_vars

(***************************************************************************)
(* File names: the video file name of create_vertical_video and the audio  *)
(* file name of text_to_speech, for two requests.  A string is a sequence  *)
(* of characters; hash() is any function of the string, so two strings     *)
(* get any two values that agree when the strings are equal.               *)
(***************************************************************************)
Chars == {"a", " ", "_", "!"}
Strings == UNION {[1..n -> Chars] : n \in 0..MaxTitleLen}
AudioPaths == {<<"a">>, <<"_">>}
HashValues == {7, 8, 10007, 100007}

\* c.isalnum() or c in (' ', '-', '_')
KeepsChar(c) == c \in {"a", " ", "_"}

\* "".join(c for c in title if ...)
RECURSIVE FilterChars(_)
FilterChars(str) ==
    IF str = <<>> THEN <<>>
    ELSE IF KeepsChar(Head(str)) THEN <<Head(str)>> \o FilterChars(Tail(str))
         ELSE FilterChars(Tail(str))

\* str.rstrip(): trailing blanks are dropped
RECURSIVE RStrip(_)
RStrip(str) ==
    IF str # <<>> /\ str[Len(str)] = " "
    THEN RStrip(SubSeq(str, 1, Len(str) - 1))
    ELSE str

\* str.replace(' ', '_')
Underscored(str) == [k \in 1..Len(str) |-> IF str[k] = " " THEN "_" ELSE str[k]]

\* safe_title of create_vertical_video
SafeTitle(title) == Underscored(RStrip(FilterChars(title)))

\* f"got_video_{safe_title}_{hash(audio_path) % 10000}.mp4"
VideoFilename(title, h) == <<"got_video", SafeTitle(title), h % 10000>>

\* ' '.join(text.split()) of _prepare_text_for_tts: runs of blanks become
\* one blank and blanks at the ends are dropped
RECURSIVE Words(_, _)
Words(str, cur) ==
    IF str = <<>> THEN (IF cur = <<>> THEN <<>> ELSE <<cur>>)
    ELSE IF Head(str) = " "
         THEN (IF cur = <<>> THEN <<>> ELSE <<cur>>) \o Words(Tail(str), <<>>)
         ELSE Words(Tail(str), Append(cur, Head(str)))

RECURSIVE Join(_)
Join(ws) ==
    IF ws = <<>> THEN <<>>
    ELSE IF Len(ws) = 1 THEN ws[1]
         ELSE ws[1] \o <<" ">> \o Join(Tail(ws))

PrepareTextForTts(text) == Join(Words(text, <<>>))

\* f"narration_{hash(cleaned_text) % 100000}.mp3"
AudioFilename(h) == <<"narration", h % 100000>>

namesFrame == <<fnVars, reqVars, optVars, botVars, sessVars, upVars,
                mainVars>>

\* two requests: for the video name a title and an audio path each, for the
\* audio name a narration text each, with the hash values of the strings
InitNames ==
    /\ imageCount = 0
    /\ script_text = <<>>
    /\ image_duration = None
    /\ key_phrases = <<>>
    /\ filter_complex = None
    /\ fn_pc = "off"
    /\ RequestOff
    /\ OptimizeOff
    /\ BotOff
    /\ SessionsOff
    /\ UploadOff
    /\ MainOff
    /\ name_pc = "call"
    /\ name_out = <<>>
    /\ \/ \E t1 \in Strings, t2 \in Strings, p1 \in AudioPaths,
             p2 \in AudioPaths, h1 \in HashValues, h2 \in HashValues :
             /\ p1 = p2 => h1 = h2
             /\ name_in = [kind |-> "video", a |-> <<t1, p1, h1>>,
                           b |-> <<t2, p2, h2>>]
       \/ \E x1 \in Strings, x2 \in Strings,
             h1 \in HashValues, h2 \in HashValues :
             /\ PrepareTextForTts(x1) = PrepareTextForTts(x2) => h1 = h2
             /\ name_in = [kind |-> "audio", a |-> <<x1, <<>>, h1>>,
                           b |-> <<x2, <<>>, h2>>]

\* the file name of one request
FileName(kind, r) ==
    IF kind = "video" THEN VideoFilename(r[1], r[3]) ELSE AudioFilename(r[3])

\* both requests name their file
NameFiles ==
    /\ name_pc = "call"
    /\ name_out' = <<FileName(name_in.kind, name_in.a),
                     FileName(name_in.kind, name_in.b)>>
    /\ name_pc' = "return"
    /\ UNCHANGED <<namesFrame, name_in>>

NextNames == NameFiles

SpecNames == InitNames /\ [][NextNames]_vars

(***************************************************************************)
(* The resumable upload of YouTubeService._upload_video_file and of        *)
(* DriveService._upload_file: the loop "while response is None" around     *)
(* request.next_chunk(), and what the method returns to the pipeline.      *)
(***************************************************************************)
Services == {"youtube", "drive"}
ServerErrors == {500, 502, 503, 504}
OtherErrors == {403}

\* MediaFileUpload(..., chunksize=-1) sends the file in one chunk; the
\* Drive upload uses the default chunk size
ChunksOf(svc) == IF svc = "youtube" THEN {1} ELSE 1..MaxChunks

upFrame == <<fnVars, reqVars, optVars, botVars, sessVars, nameVars,
            mainVars>>

\* response = None, before the first next_chunk()
InitUpload ==
    /\ imageCount = 0
    /\ script_text = <<>>
    /\ image_duration = None
    /\ key_phrases = <<>>
    /\ filter_complex = None
    /\ fn_pc = "off"
    /\ RequestOff
    /\ OptimizeOff
    /\ BotOff
    /\ SessionsOff
    /\ NamesOff
    /\ MainOff
    /\ up_pc = "loop"
    /\ up_svc \in Services
    /\ up_chunks \in ChunksOf(up_svc)
    /\ up_sent = 0
    /\ up_last = 0
    /\ up_retries = 0
    /\ up_result = None

\* status, response = request.next_chunk(): the server takes the chunk; the
\* response stays None until the last chunk is in
NextChunkAccepted ==
    /\ up_pc = "loop"
    /\ up_sent' = up_sent + 1
    /\ IF up_sent + 1 = up_chunks
       THEN up_last' = 200 /\ up_pc' = "response"
       ELSE up_last' = 308 /\ up_pc' = "loop"
    /\ UNCHANGED <<upFrame, up_svc, up_chunks, up_retries, up_result>>

\* if e.resp.status in [500, 502, 503, 504]
RetriesOn(status) == status \in ServerErrors

\* except HttpError as e: a server error is logged and the loop continues
\* with response still None; any other error is raised out of upload() and
\* the method returns None from its except clause
NextChunkFails ==
    /\ up_pc = "loop"
    /\ \E status \in ServerErrors \cup OtherErrors :
          /\ up_last' = status
          /\ IF RetriesOn(status)
             THEN /\ up_retries' = IF up_retries < MaxRetries
                                   THEN up_retries + 1 ELSE up_retries
                  /\ up_pc' = "loop"
             ELSE /\ up_pc' = "returned"
                  /\ UNCHANGED up_retries
    /\ UNCHANGED <<upFrame, up_svc, up_chunks, up_sent, up_result>>

\* return response; the method returns the id of the response, or None when
\* the response has none
ReturnId ==
    /\ up_pc = "response"
    /\ \E has_id \in BOOLEAN :
          up_result' = IF has_id THEN Some("id") ELSE None
    /\ up_pc' = "returned"
    /\ UNCHANGED <<upFrame, up_svc, up_chunks, up_sent, up_last, up_retries>>

NextUpload ==
    \/ NextChunkAccepted
    \/ NextChunkFails
    \/ ReturnId

SpecUpload == InitUpload /\ [][NextUpload]_vars

\* the executor thread keeps running upload() until it returns
SpecUploadFair == SpecUpload /\ WF_vars(NextUpload)

(***************************************************************************)
(* main.py: the coroutine main() and the loop of the __main__ block that   *)
(* runs it.  An exception is modelled by the name of its class.            *)
(***************************************************************************)
mainFrame == <<fnVars, reqVars, optVars, botVars, sessVars, nameVars,
               upVars>>

\* messages of the restart loop in main_log
Restarts == {k \in 1..Len(main_log) : main_log[k][1] = "Main crashed"}

\* the interpreter reaches the __main__ block
InitMain ==
    /\ imageCount = 0
    /\ script_text = <<>>
    /\ image_duration = None
    /\ key_phrases = <<>>
    /\ filter_complex = None
    /\ fn_pc = "off"
    /\ RequestOff
    /\ OptimizeOff
    /\ BotOff
    /\ SessionsOff
    /\ NamesOff
    /\ UploadOff
    /\ main_pc = "loop"
    /\ main_log = <<>>
    /\ exit_code = None

\* while True: try: asyncio.run(main())
RunMain ==
    /\ main_pc = "loop"
    /\ main_pc' = "setup_logger"
    /\ UNCHANGED <<mainFrame, main_log, exit_code>>

\* an exception that reaches the except clause of the loop:
\* logging.error("Main crashed, restarting..."), then time.sleep(5)
Crash(e) ==
    /\ main_log' = Append(main_log, <<"Main crashed", e>>)
    /\ main_pc' = "sleep"

\* except Exception as e inside main(): logger.error("Fatal error in bot"),
\* then sys.exit(1), which raises SystemExit
Fatal(e) ==
    /\ main_log' = Append(main_log, <<"Fatal error in bot", e>>)
    /\ main_pc' = "sys_exit"

\* logger = setup_logger(): before the try block of main(); it creates the
\* logs directory and opens the log files
SetupLogger ==
    /\ main_pc = "setup_logger"
    /\ \/ main_pc' = "config" /\ UNCHANGED main_log
       \/ /\ Cardinality(Restarts) < MaxRestarts
          /\ \E e \in {"PermissionError", "OSError"} : Crash(e)
    /\ UNCHANGED <<mainFrame, exit_code>>

\* config = Config(): a missing required variable raises ValueError
LoadConfig ==
    /\ main_pc = "config"
    /\ \/ main_pc' = "servers" /\ UNCHANGED main_log
       \/ Fatal("ValueError")
    /\ UNCHANGED <<mainFrame, exit_code>>

\* Path("temp").mkdir(exist_ok=True) and the two daemon threads
StartServers ==
    /\ main_pc = "servers"
    /\ \/ main_pc' = "bot_init" /\ UNCHANGED main_log
       \/ Fatal("OSError")
    /\ UNCHANGED <<mainFrame, exit_code>>

\* bot = LoreVideoBot(config)
CreateBot ==
    /\ main_pc = "bot_init"
    /\ \/ main_pc' = "bot_start" /\ UNCHANGED main_log
       \/ Fatal("InvalidToken")
    /\ UNCHANGED <<mainFrame, exit_code>>

\* await bot.start(app): LoreVideoBot.start(self) takes no argument, so
\* the call raises TypeError
StartBot ==
    /\ main_pc = "bot_start"
    /\ Fatal("TypeError")
    /\ UNCHANGED <<mainFrame, exit_code>>

\* SystemExit is not an Exception: it passes the except clause of main(),
\* asyncio.run and the except clause of the loop, and the process exits
SysExit ==
    /\ main_pc = "sys_exit"
    /\ main_pc' = "exited"
    /\ exit_code' = Some(1)
    /\ UNCHANGED <<mainFrame, main_log>>

\* time.sleep(5) returns and the loop runs main() again
SleepDone ==
    /\ main_pc = "sleep"
    /\ main_pc' = "loop"
    /\ UNCHANGED <<mainFrame, main_log, exit_code>>

NextMain ==
    \/ RunMain
    \/ SetupLogger
    \/ LoadConfig
    \/ StartServers
    \/ CreateBot
    \/ StartBot
    \/ SysExit
    \/ SleepDone

SpecMain == InitMain /\ [][NextMain]_vars

(***************************************************************************)
(* Properties of the composition request and of the optimizer (Spec).      *)
(***************************************************************************)
\* the probed duration and image count are infeasible: no image, or
\* totalDuration / imageCount <= 0.8 s
Infeasible ==
    \/ imageCount <= 0
    \/ /\ IsSome(audio_duration)
       /\ Get(audio_duration) <= 8 * imageCount

\* C1: a request with imageCount <= 0 or totalDuration/imageCount <= 0.8 s
\* fails before a timing plan is yielded, a graph is built or a render
\* process is spawned, and it returns no artifact.
C1_InfeasibleRejected ==
    Infeasible =>
        /\ image_duration = None
        /\ filter_complex = None
        /\ renders = 0
        /\ (pc = "done" => result = None)

HasFilter(stage, name) ==
    \E k \in 1..Len(stage.filters) : stage.filters[k].name = name

XfadeStages(g) == {s \in 1..Len(g) : HasFilter(g[s], "xfade")}

\* position in g of its k-th cross-fade stage
KthXfade(g, k) ==
    CHOOSE s \in XfadeStages(g) :
        Cardinality({x \in XfadeStages(g) : x < s}) = k - 1

\* the stage before position s that applies the motion effect to raw image k
IsMotionOutput(g, s, label, k) ==
    \E a \in 1..(s - 1) :
        /\ g[a].out = label
        /\ g[a].ins = <<RawIn(k)>>
        /\ HasFilter(g[a], "zoompan")

\* C3: no cross-fade stage for one image, exactly N - 1 for N > 1 images,
\* the k-th combining the running composite (image 0's output for k = 1,
\* the previous cross-fade's output after that) with image k's output.
C3_TransitionCount ==
    fn_pc = "return" =>
        LET g == Get(filter_complex)
        IN  /\ Cardinality(XfadeStages(g)) =
                   IF imageCount = 1 THEN 0 ELSE imageCount - 1
            /\ \A k \in 1..(imageCount - 1) :
                   LET s == KthXfade(g, k)
                   IN  /\ Len(g[s].ins) = 2
                       /\ IsMotionOutput(g, s, g[s].ins[2], k)
                       /\ IF k = 1
                          THEN IsMotionOutput(g, s, g[s].ins[1], 0)
                          ELSE /\ KthXfade(g, k - 1) < s
                               /\ g[s].ins[1] = g[KthXfade(g, k - 1)].out

\* a graph of three or more images has been built
C3_Witness ==
    /\ fn_pc = "return"
    /\ imageCount >= 3
    /\ Cardinality(XfadeStages(Get(filter_complex))) = imageCount - 1

\* offset of the k-th cross-fade stage of g
OffsetOf(g, k) == g[KthXfade(g, k)].filters[1].offset

\* C4: transition i starts at i * perImageDuration - 0.8 s, and 48.0 s over
\* 4 images give 12.0 s per image and offsets 11.2, 23.2 and 35.2 s.
C4_TransitionOffsets ==
    fn_pc = "return" =>
        LET g == Get(filter_complex)
            dur == Get(image_duration)
        IN  /\ \A i \in 1..(imageCount - 1) :
                   REq(OffsetOf(g, i), RSub(RMul(RInt(i), dur), RInt(8)))
            /\ (imageCount = 4 /\ dur = ImageDuration(480, 4)) =>
                   /\ REq(dur, RInt(120))
                   /\ REq(OffsetOf(g, 1), RInt(112))
                   /\ REq(OffsetOf(g, 2), RInt(232))
                   /\ REq(OffsetOf(g, 3), RInt(352))

\* the graph of the 48.0 s, 4 image scenario has been built
C4_Witness ==
    /\ fn_pc = "return"
    /\ imageCount = 4
    /\ image_duration = Some(ImageDuration(480, 4))
    /\ Cardinality(XfadeStages(Get(filter_complex))) = 3

\* the caption overlays of g: the filters of its last stage
Overlays(g) == g[Len(g)].filters

\* C5: the caption windows of k >= 1 phrases over T are (j*T/k, (j+1)*T/k):
\* the first starts at 0, each starts where the previous one ends, none is
\* empty or overlaps another, and the last ends at T.
C5_CaptionWindows ==
    (fn_pc = "return" /\ Len(key_phrases) >= 1) =>
        LET F == Overlays(Get(filter_complex))
            k == Len(key_phrases)
            T == RMul(RInt(imageCount), Get(image_duration))
        IN  /\ Len(F) = k
            /\ k <= 4
            /\ REq(F[1].start, RInt(0))
            /\ REq(F[k].end, T)
            /\ \A j \in 1..k :
                   /\ RLt(F[j].start, F[j].end)
                   /\ REq(F[j].start, RDivInt(RMul(RInt(j - 1), T), k))
                   /\ REq(F[j].end, RDivInt(RMul(RInt(j), T), k))
                   /\ j > 1 => REq(F[j].start, F[j - 1].end)

\* a schedule of four captions has been built
C5_Witness ==
    /\ fn_pc = "return"
    /\ Len(key_phrases) = 4
    /\ Len(Overlays(Get(filter_complex))) = 4

\* presentation times in [0, T): the starts of the windows (the boundary
\* instants) and their midpoints
SampleTimes(F) ==
    {F[j].start : j \in 1..Len(F)} \cup
    {RDivInt(RAdd(F[j].start, F[j].end), 2) : j \in 1..Len(F)}

\* C6: at every presentation time in [0, T), the boundary instants between
\* two windows included, at most one caption overlay is enabled.
C6_OneCaptionAtATime ==
    (fn_pc = "return" /\ Len(key_phrases) >= 1) =>
        LET F == Overlays(Get(filter_complex))
        IN  \A t \in SampleTimes(F) :
                Cardinality({j \in 1..Len(F) : Enabled(F[j], t)}) <= 1

\* C9: when no sentence qualifies, no stage follows the base stage, no
\* stage is empty and no caption overlay is emitted.
C9_NoCaptionsNoOverlay ==
    (fn_pc = "return" /\ Len(key_phrases) = 0) =>
        LET g == Get(filter_complex)
        IN  /\ g[Len(g)].out = Base
            /\ \A s \in 1..Len(g) :
                   /\ Len(g[s].filters) >= 1
                   /\ ~HasFilter(g[s], "drawtext")

\* the labels a graph of n images has to produce
ExpectedLabels(n) ==
    {V(i) : i \in 0..(n - 1)} \cup {Fade(i) : i \in 1..(n - 1)} \cup {Base, Output}

\* C10: every label is produced by exactly one stage, every input is a raw
\* image index or the output of an earlier stage, every stage applies a
\* filter, and the last stage produces the label mapped to the encoder.
C10_WellFormedGraph ==
    fn_pc = "return" =>
        LET g == Get(filter_complex)
        IN  /\ {g[s].out : s \in 1..Len(g)} = ExpectedLabels(imageCount)
            /\ \A s1, s2 \in 1..Len(g) : g[s1].out = g[s2].out => s1 = s2
            /\ \A s \in 1..Len(g) :
                   /\ Len(g[s].filters) >= 1
                   /\ \A k \in 1..Len(g[s].ins) :
                          \/ g[s].ins[k] \in {RawIn(i) : i \in 0..(imageCount - 1)}
                          \/ \E a \in 1..(s - 1) : g[a].out = g[s].ins[k]
            /\ g[Len(g)].out = Output

(***************************************************************************)
(* Properties of caption extraction (SpecPhrases).                         *)
(***************************************************************************)
\* positions of the sentences of the script that qualify as captions
QualifyingSentences ==
    LET sentences == SplitSentences(script_text)
    IN  {i \in 1..Len(sentences) :
            LET n == sentences[i].raw - sentences[i].pad
            IN  n > 10 /\ (sentences[i].hook \/ n < 50)}

\* C8: the result is the first 4 qualifying sentences, in script order, each
\* once and upper-cased; a sentence qualifies iff its stripped length is
\* above 10 and it holds a hook keyword or is shorter than 50.
C8_KeyPhrases ==
    fn_pc = "return" =>
        LET Q == QualifyingSentences
            n == Len(key_phrases)
        IN  /\ n <= 4
            /\ n = IF Cardinality(Q) < 4 THEN Cardinality(Q) ELSE 4
            /\ \A j \in 1..n :
                   /\ key_phrases[j].src \in Q
                   /\ key_phrases[j].upper
                   /\ LET sentence == SplitSentences(script_text)[key_phrases[j].src]
                      IN  key_phrases[j].len = sentence.raw - sentence.pad
                   /\ j > 1 => key_phrases[j - 1].src < key_phrases[j].src
                   /\ \A q \in Q : q < key_phrases[j].src =>
                          \E h \in 1..(j - 1) : key_phrases[h].src = q

\* five sentences qualified and four phrases were returned
C8_Witness ==
    /\ fn_pc = "return"
    /\ Cardinality(QualifyingSentences) = 5
    /\ Len(key_phrases) = 4

(***************************************************************************)
(* Further properties of the graph builder (SpecGraph).                    *)
(***************************************************************************)
\* positions of the stages of g that apply a fade-in / fade-out pair
FadeStages(g) == {s \in 1..Len(g) : HasFilter(g[s], "fade")}

\* C11: one image of duration d takes the branch without cross-fade and gets
\* a fade-in at 0 and a fade-out at d - 0.5 s, each 0.5 s long; 10.0 s give a
\* fade-out at 9.5 s.
C11_SingleImageFades ==
    (fn_pc = "return" /\ imageCount = 1) =>
        LET g == Get(filter_complex)
            dur == Get(image_duration)
        IN  /\ XfadeStages(g) = {}
            /\ Cardinality(FadeStages(g)) = 1
            /\ \A s \in FadeStages(g) :
                   /\ Len(g[s].filters) = 2
                   /\ g[s].filters[1].t = "in"
                   /\ REq(g[s].filters[1].st, RInt(0))
                   /\ REq(g[s].filters[1].d, RInt(5))
                   /\ g[s].filters[2].t = "out"
                   /\ REq(g[s].filters[2].st, RSub(dur, RInt(5)))
                   /\ REq(g[s].filters[2].d, RInt(5))
                   /\ REq(dur, RInt(100)) => REq(g[s].filters[2].st, RInt(95))

\* the graph of one image shown for 10.0 s has been built
C11_Witness ==
    /\ fn_pc = "return"
    /\ imageCount = 1
    /\ image_duration = Some(ImageDuration(100, 1))
    /\ FadeStages(Get(filter_complex)) # {}

\* the motion effect the graph g applies to raw image i
EffectIn(g, i) ==
    LET s == CHOOSE a \in 1..Len(g) : g[a].ins = <<RawIn(i)>>
    IN  g[s].filters[3].effect

\* C12: image i gets ZoomIn, PanRight or ZoomOut as i mod 3 is 0, 1 or 2,
\* whatever the duration and the script, so images i and i + 3 get the same
\* effect.
C12_EffectRotation ==
    fn_pc = "return" =>
        LET g == Get(filter_complex)
        IN  \A i \in 0..(imageCount - 1) :
                /\ i % 3 = 0 => EffectIn(g, i) = "ZoomIn"
                /\ i % 3 = 1 => EffectIn(g, i) = "PanRight"
                /\ i % 3 = 2 => EffectIn(g, i) = "ZoomOut"
                /\ i + 3 <= imageCount - 1 => EffectIn(g, i) = EffectIn(g, i + 3)

\* a graph with images 0 and 3 has been built
C12_Witness ==
    /\ fn_pc = "return"
    /\ imageCount >= 4
    /\ EffectIn(Get(filter_complex), 3) = "ZoomIn"

\* C18: with N > 1 images and perImageDuration - 0.8 s negative the builder
\* emits no graph, and no emitted graph has a transition with a negative
\* offset.
C18_NegativeOffsetRejected ==
    (fn_pc = "return" /\ imageCount > 1) =>
        /\ RLt(RSub(Get(image_duration), RInt(8)), RInt(0)) =>
               filter_complex = None
        /\ IsSome(filter_complex) =>
               \A i \in 1..(imageCount - 1) :
                   RLe(RInt(0), OffsetOf(Get(filter_complex), i))

\* positions of the color-grading stages of g
EqStages(g) == {s \in 1..Len(g) : HasFilter(g[s], "eq")}

\* C19: for every N >= 1 the graph has exactly one color-grading stage, after
\* every per-image and transition stage and before every caption overlay.
C19_OneColorGrade ==
    fn_pc = "return" =>
        LET g == Get(filter_complex)
        IN  /\ Cardinality(EqStages(g)) = 1
            /\ \A e \in EqStages(g), s \in 1..Len(g) :
                   /\ (HasFilter(g[s], "zoompan") \/ HasFilter(g[s], "xfade")
                       \/ HasFilter(g[s], "fade")) => s < e
                   /\ HasFilter(g[s], "drawtext") => e < s

(***************************************************************************)
(* Further properties of the composition request (Spec).                   *)
(***************************************************************************)
\* C13: for totalDuration/imageCount > 0.8 s, perImageDuration * imageCount
\* equals totalDuration, so the duration the caption windows are spread over
\* is the probed narration duration.
C13_DurationsAgree ==
    (IsSome(image_duration) /\ Get(audio_duration) > 8 * imageCount) =>
        /\ REq(RMul(RInt(imageCount), Get(image_duration)),
               RInt(Get(audio_duration)))
        /\ (IsSome(filter_complex) /\ Len(key_phrases) >= 1) =>
               LET F == Overlays(Get(filter_complex))
               IN  REq(F[Len(F)].end, RInt(Get(audio_duration)))

\* a feasible request has built its graph with captions
C13_Witness ==
    /\ IsSome(filter_complex)
    /\ Get(audio_duration) > 8 * imageCount
    /\ Len(key_phrases) >= 1
    /\ imageCount = 3

\* create_subprocess_exec of the render raised
RenderSpawnRaised ==
    \E k \in 1..Len(log) : log[k] = "Error running FFmpeg: OSError"

\* _create_video_with_ffmpeg has been called and has returned
RenderAttempted == pc \in {"validate", "done"} /\ IsSome(image_duration)

\* C14: a request makes one render attempt and the attempt spawns exactly
\* one render process; no second process is spawned after a failure.
C14_OneRenderProcess ==
    /\ renders <= 1
    /\ (RenderAttempted /\ ~RenderSpawnRaised) => renders = 1

\* C15: the probe returns a strictly positive duration or fails, spawns one
\* process and is not retried, and no plan is made from a duration that is
\* zero or negative.
C15_ProbePositiveOrFails ==
    /\ probes <= 1
    /\ pc = "probe_wait" => probes = 1
    /\ pc = "probe_check" =>
           (audio_duration = None \/ Get(audio_duration) > 0)
    /\ IsSome(image_duration) => Get(audio_duration) > 0

\* the probe has failed or returned no usable duration
ProbeFailed == audio_duration = None \/ Get(audio_duration) = 0

\* probe, plan, graph and render happen in this order, and a failure of the
\* probe or of the graph construction ends the request
RequestStagesInOrder ==
    /\ IsSome(image_duration) => (IsSome(audio_duration) /\ probes = 1)
    /\ IsSome(filter_complex) => IsSome(image_duration)
    /\ renders > 0 => IsSome(filter_complex)
    /\ (pc = "done" /\ ProbeFailed) =>
           /\ image_duration = None
           /\ filter_complex = None
           /\ renders = 0
           /\ result = None
    /\ (pc \in {"validate", "done"} /\ filter_complex = None) =>
           /\ renders = 0
           /\ pc = "done" => result = None

RenderSucceeded ==
    success /\ result = Some(OutputPath)

\* C17: the two upload_video calls are made only with the path of a video
\* that a successful render produced; when create_vertical_video has
\* returned None no upload is made; a render that failed leaves no file at
\* the output path.
C17_OnlyRenderedVideoDelivered ==
    /\ \A k \in 1..Len(uploads) :
          uploads[k].arg = Some(OutputPath) /\ RenderSucceeded
    /\ (pc = "done" /\ result = None) => uploads = <<>>
    /\ (pc \in {"validate", "done"} /\ ~success) => output_file = "missing"

\* both upload_video calls have returned and the success message was sent
HandoffDone ==
    /\ Len(uploads) = 2
    /\ success_sent
    /\ bot_pc \in {"finally", "done"}

\* C20: once both uploads are done, the success message is sent and the
\* cleanup has run, no downloaded image, no narration audio and no rendered
\* video of the request is left in the scratch directory.
C20_TransientFilesDeleted ==
    HandoffDone =>
        /\ image_files = 0
        /\ ~audio_on_disk
        /\ output_file = "missing"

(***************************************************************************)
(* Failure results of the render                                           *)
(***************************************************************************)
\* the ffmpeg process of the request has exited with a non-zero code
RenderExitedNonZero ==
    IsSome(process) /\ Get(process).returncode # 0

C22_TooFewImagesRejected ==
    imageCount < 3 =>
        /\ probes = 0
        /\ renders = 0
        /\ output_file = "missing"
        /\ pc \in {"start", "done"}
        /\ pc = "done" => result = None

C22_Witness ==
    /\ imageCount = 2
    /\ pc = "done"
    /\ result = None
    /\ log = <<"Insufficient images for video creation">>

(***************************************************************************)
(* Outcomes of create_vertical_video                                       *)
(***************************************************************************)
\* the render engine did something other than exit 0 with a non-empty file:
\* it could not be spawned, exited non-zero, or left no usable output
EngineFailed ==
    \/ RenderSpawnRaised
    \/ RenderExitedNonZero
    \/ (IsSome(process) /\ output_file # "nonempty")

\* C23: a finished request with at least 3 images, a positive probed
\* duration and a render engine that did not fail has spawned the render
\* process and has returned the output path, not None.
C23_SuccessReachable ==
    (/\ pc = "done"
     /\ imageCount >= 3
     /\ IsSome(audio_duration)
     /\ Get(audio_duration) > 0
     /\ ~EngineFailed) =>
        /\ renders = 1
        /\ result = Some(OutputPath)

\* an exception was raised inside the probe, the graph construction or the
\* render spawn of the request
RaisedInside ==
    \E k \in 1..Len(log) :
        log[k] \in {"Error getting audio duration",
                    "Error running FFmpeg: NameError",
                    "Error running FFmpeg: OSError"}

\* C24: create_vertical_video never raises to its caller: whatever the
\* probe, the graph construction and the render process do, exceptions
\* included, the request ends by returning the output path or None.
C24_NeverRaises ==
    /\ pc # "raised"
    /\ pc = "done" => result \in {None, Some(OutputPath)}
    /\ (RaisedInside /\ pc = "done") => result = None

C24_Witness ==
    /\ pc = "done"
    /\ RenderSpawnRaised
    /\ result = None

(***************************************************************************)
(* Sessions and pipelines                                                  *)
(***************************************************************************)
\* the create_video coroutines of user u that have not returned yet
InFlight(u) ==
    {i \in 1..Len(pipelines) :
        pipelines[i].user = u /\ pipelines[i].pc # "done"}

\* C25: for each user at most one create_video pipeline is in flight at any
\* time, however the user's /start commands and text messages interleave
\* with a pipeline that is awaiting one of its steps.
C25_OnePipelinePerUser ==
    \A u \in Users : Cardinality(InFlight(u)) <= 1

\* pipeline i takes its finally step
Finishes(i) ==
    /\ pipelines[i].pc = "finally"
    /\ pipelines'[i].pc = "done"

\* a /start of the pipeline's user arrived after pipeline i had started and
\* has put the session into state 'waiting_for_topic'
RestartedDuring(i) ==
    /\ SeenState(pipelines[i].user) = "waiting_for_topic"
    /\ \E h \in 1..Len(handlers) :
          /\ h > pipelines[i].started
          /\ handlers[h].kind = "start"
          /\ handlers[h].user = pipelines[i].user
          /\ handlers[h].pc = "done"

\* C26: the finally block of a pipeline removes only the session that
\* started it: a session that a /start issued during the pipeline has put
\* into state 'waiting_for_topic' is still there, in that state, afterwards.
C26_OnlyOwnSessionRemoved ==
    [][\A i \in 1..Len(pipelines) :
          (Finishes(i) /\ RestartedDuring(i)) =>
              /\ pipelines[i].user \in DOMAIN user_sessions'
              /\ user_sessions'[pipelines[i].user].state = "waiting_for_topic"
      ]_vars

\* a step that starts a pipeline, and the handler that starts it
StartsPipeline == Len(pipelines') = Len(pipelines) + 1
Starter == handlers[pipelines'[Len(pipelines')].by]

\* a step in which a text message arrives
MessageArrives ==
    /\ Len(handlers') = Len(handlers) + 1
    /\ handlers'[Len(handlers')].kind = "message"

\* C27: every create_video run ends with its user's session removed from
\* user_sessions; only a message that found the session waiting for a topic
\* starts a pipeline (none without a session, none while 'processing'); a
\* message that arrives while the state is 'processing' leaves the session's
\* topic and state as they were.
C27_SessionLifecycle ==
    [][/\ \A i \in 1..Len(pipelines) :
             Finishes(i) => pipelines[i].user \notin DOMAIN user_sessions'
       /\ StartsPipeline =>
             /\ Starter.kind = "message"
             /\ Starter.seen = "waiting_for_topic"
       /\ (MessageArrives /\ handlers'[Len(handlers')].seen = "processing") =>
             user_sessions' = user_sessions
       /\ (MessageArrives /\ handlers'[Len(handlers')].seen = "none") =>
             user_sessions' = user_sessions
      ]_vars

C27_Witness ==
    /\ \E i \in 1..Len(pipelines) :
          /\ pipelines[i].pc = "done"
          /\ pipelines[i].outcome = "error"
          /\ pipelines[i].user \notin DOMAIN user_sessions
    /\ \E h \in 1..Len(handlers) :
          /\ handlers[h].kind = "message"
          /\ handlers[h].seen = "processing"
          /\ handlers[h].pc = "done"
    /\ \E h \in 1..Len(handlers) :
          /\ handlers[h].kind = "message"
          /\ handlers[h].seen = "none"
          /\ handlers[h].pc = "done"

(***************************************************************************)
(* File names of concurrent requests                                       *)
(***************************************************************************)
\* C28: two requests never get the same file name: video names differ when
\* the titles or the audio paths differ, and audio names differ when the
\* narration texts differ.
C28_DistinctOutputPaths ==
    name_pc = "return" =>
        /\ (/\ name_in.kind = "video"
            /\ (name_in.a[1] # name_in.b[1] \/ name_in.a[2] # name_in.b[2]))
              => name_out[1] # name_out[2]
        /\ (name_in.kind = "audio" /\ name_in.a[1] # name_in.b[1])
              => name_out[1] # name_out[2]

(***************************************************************************)
(* Termination of the chunk-upload loops                                   *)
(***************************************************************************)
\* C29: the upload loop terminates: whatever the server answers, server
\* errors on every chunk request included, the upload eventually returns an
\* id or a failure to the pipeline.
C29_UploadTerminates ==
    <>(up_pc = "returned")

(***************************************************************************)
(* The restart loop                                                        *)
(***************************************************************************)
\* main() has ended with an exception raised while loading the
\* configuration or while creating and starting the bot
StartupFailed ==
    /\ main_log # <<>>
    /\ main_log[Len(main_log)][1] = "Fatal error in bot"
    /\ main_log[Len(main_log)][2] \in {"ValueError", "InvalidToken",
                                       "TypeError"}

\* C30: the restart loop keeps the bot alive: when main() ends because of
\* an exception raised during configuration loading or bot start-up, the
\* process does not exit; the loop pauses and runs main() again.
C30_RestartKeepsAlive ==
    StartupFailed => (main_pc # "exited" /\ exit_code = None)

====
